---------------------------- MODULE Spec2Model ----------------------------
(***************************************************************************)
(* Model of src/main.py: the LLM gateway chat_with_fallback, the JSON      *)
(* recovery clean_json_string / parse_cv_to_json, the whitelist filter     *)
(* anonymize_with_whitelist and the request handler extract_cv.            *)
(*                                                                         *)
(* Strings are sequences of one-character strings.  Each component has its *)
(* own specification (SpecGateway, SpecWhitelist, SpecJson, SpecRequest);  *)
(* the variables of the other components stay at their idle values.        *)
(***************************************************************************)
EXTENDS Integers, Sequences, FiniteSets, TLC

VARIABLES
    call,        \* the activation record of one chat_with_fallback call
    whitelist,   \* the whitelist argument of anonymize_with_whitelist
    detected,    \* what anonymize(text) returned: [text, map]
    filtered,    \* what anonymize_with_whitelist returned: [text, map]
    refiltered,  \* the restoration loop applied to `filtered` once more
    reply,       \* the answer parse_cv_to_json got from the gateway
    cleaned,     \* clean_json_string(answer)
    parsed,      \* the value parse_cv_to_json returns
    json_pc,     \* how far that answer has got: answer | cleaned | loaded
    reqs,        \* the extract_cv requests in flight, by request id
    globals      \* the module's WHITELIST and MODELS objects

vars == <<call, whitelist, detected, filtered, refiltered, reply, cleaned, parsed,
          json_pc, reqs, globals>>

None == [none |-> TRUE]

(***************************************************************************)
(* Bounds: the longest list of models and the largest max_retries of a     *)
(* call, the spans of an input text, the length of a gateway answer, the   *)
(* requests in flight.                                                     *)
(***************************************************************************)
MaxModels == 3
MaxRetries == 2
MaxSpans == 3
MaxReplyLen == 5
NumRequests == 2

\* Program constants: len(MODELS) (52-61) and the default of max_retries (251).
NumModels == 8
DefaultRetries == 1

(***************************************************************************)
(* chat_with_fallback (src/main.py 248-288).                               *)
(***************************************************************************)

\* MODELS (52-61) holds 8 identifiers; a call gets a list of them.  The
\* identifiers are modelled by their position in the list.
ModelLists == {[i \in 1..n |-> i] : n \in 0..MaxModels}

\* The two prompts the program sends: parse_cv_to_json's and
\* generate_interview_questions'.
Messages == {"cv_prompt", "questions_prompt"}

\* The completion texts a provider may put in choices[0].message.content.
Contents == {<<"{", "}">>, <<"a">>, <<"[", "]">>}

\* What one request can come to (263-279):
\*   transport  client.post raises (connect error, timeout)        264
\*   status     a non-2xx response: raise_for_status raises        273
\*   badjson    2xx, the body is not JSON: response.json() raises  274
\*   nocontent  2xx, JSON without choices[0].message.content       279
\*   content    2xx with choices[0].message.content                279
FailureKinds == {"transport", "status", "badjson", "nocontent"}
Outcomes == [kind : FailureKinds, body : {None}]
              \cup [kind : {"content"}, body : Contents]

Is2xx(o) == o.kind \in {"badjson", "nocontent", "content"}

\* The exception each failing outcome raises inside the try block.  The
\* request is made with httpx, so these are httpx's, json's and the
\* built-in exception classes.
ExceptionOf(o) ==
    CASE o.kind = "transport" -> [class |-> "httpx.TransportError", last |-> None]
      [] o.kind = "status"    -> [class |-> "httpx.HTTPStatusError", last |-> None]
      [] o.kind = "badjson"   -> [class |-> "json.JSONDecodeError", last |-> None]
      [] o.kind = "nocontent" -> [class |-> "KeyError", last |-> None]

\* The classes `except requests.exceptions.RequestException` (281) catches:
\* RequestException and its subclasses, all of the requests library.
RequestExceptionClasses ==
    {"requests.RequestException", "requests.ConnectionError",
     "requests.Timeout", "requests.HTTPError"}

\* Catches with a handler for the failed status only.
CatchesStatusOnly(e) == e.class = "httpx.HTTPStatusError"

\* 281
Catches(e) == e.class \in RequestExceptionClasses

\* The record of a call as it is entered (258): no exception yet, at the
\* first model and the first attempt.
NewCall(msg, ms, r) ==
    [message |-> msg, models |-> ms, max_retries |-> r,
     pc |-> "loop",            \* loop | awaiting | returned | raised
     mi |-> 1,                 \* index of `model` in `models`
     attempt |-> 0,            \* `attempt`, 0-based as in range(max_retries)
     last_exception |-> None,
     result |-> None,          \* the value returned (279)
     exc |-> None,             \* the exception the call ends with
     log |-> <<>>,             \* the records logging.* wrote (283, 286)
     attempts |-> <<>>]        \* the requests issued, with their outcomes

IdleCall == [NewCall("cv_prompt", <<>>, 0) EXCEPT !.pc = "idle"]

\* CanPost with the bound of the inner loop off by one.
CanPostOffByOne(c) ==
    /\ c.pc = "loop"
    /\ c.mi <= Len(c.models)
    /\ c.attempt <= c.max_retries

\* 260-272: the loops have a next (model, attempt) pair: post the request.
CanPost(c) ==
    /\ c.pc = "loop"
    /\ c.mi <= Len(c.models)
    /\ c.attempt < c.max_retries

DoPost(c) ==
    [c EXCEPT !.pc = "awaiting",
              !.attempts = Append(@, [model |-> c.models[c.mi],
                                      attempt |-> c.attempt + 1,
                                      outcome |-> None])]

\* ReturnContent without the return: the loop goes on to the next attempt.
ReturnContentRetries(c, o) == [c EXCEPT !.pc = "loop", !.attempt = @ + 1]

\* 279: the completion text is returned.
ReturnContent(c, o) == [c EXCEPT !.pc = "returned", !.result = o.body]

\* 273-284: the response (or the failure to get one) arrives.
DoRespond(c, o) ==
    LET n == Len(c.attempts)
        c1 == [c EXCEPT !.attempts[n].outcome = o]
    IN  IF o.kind = "content"
        THEN ReturnContent(c1, o)
        ELSE LET e == ExceptionOf(o)
             IN  IF Catches(e)
                 THEN [c1 EXCEPT !.pc = "loop",
                                 !.last_exception = e,
                                 !.log = Append(@, [level |-> "warning",
                                                    model |-> c.models[c.mi],
                                                    attempt |-> c.attempt + 1]),
                                 !.attempt = @ + 1]
                 ELSE [c1 EXCEPT !.pc = "raised", !.exc = e]

\* 261, 286: range(max_retries) is used up for this model.
CanSwitch(c) ==
    /\ c.pc = "loop"
    /\ c.mi <= Len(c.models)
    /\ c.attempt >= c.max_retries

DoSwitch(c) ==
    [c EXCEPT !.log = Append(@, [level |-> "info",
                                 model |-> c.models[c.mi],
                                 attempt |-> c.max_retries]),
              !.mi = @ + 1,
              !.attempt = 0]

\* 260, 288: the list of models is used up.
CanExhaust(c) == c.pc = "loop" /\ c.mi > Len(c.models)

DoExhaust(c) ==
    [c EXCEPT !.pc = "raised",
              !.exc = [class |-> "RuntimeError", last |-> c.last_exception]]


(***************************************************************************)
(* anonymize_with_whitelist (src/main.py 434-442).                         *)
(***************************************************************************)

\* s[i..] starts with `old`.
MatchAt(s, i, old) ==
    /\ i + Len(old) - 1 <= Len(s)
    /\ \A k \in 1..Len(old) : s[i + k - 1] = old[k]

Occurs(old, s) == \E i \in 1..Len(s) : Len(old) > 0 /\ MatchAt(s, i, old)

\* str.replace(old, new) for a non-empty `old`: the occurrences are found
\* from the left and do not overlap; the text put in is not scanned again.
RECURSIVE ReplaceFrom(_, _, _, _)
ReplaceFrom(s, i, old, new) ==
    IF i > Len(s) THEN <<>>
    ELSE IF MatchAt(s, i, old)
         THEN new \o ReplaceFrom(s, i + Len(old), old, new)
         ELSE <<s[i]>> \o ReplaceFrom(s, i + 1, old, new)

\* str.replace with an empty `old` puts `new` before every character and
\* at the end.
RECURSIVE Interleave(_, _, _)
Interleave(s, i, new) ==
    IF i > Len(s) THEN new ELSE new \o <<s[i]>> \o Interleave(s, i + 1, new)

\* 439: anonymized_text.replace(placeholder, original)
Replace(s, old, new) ==
    IF Len(old) = 0 THEN Interleave(s, 1, new) ELSE ReplaceFrom(s, 1, old, new)

\* The map is a dict: a sequence of (placeholder, original) items in
\* insertion order, no placeholder twice.
RECURSIVE DelFrom(_, _, _)
DelFrom(m, i, placeholder) ==
    IF i > Len(m) THEN <<>>
    ELSE IF m[i].placeholder = placeholder
         THEN DelFrom(m, i + 1, placeholder)
         ELSE <<m[i]>> \o DelFrom(m, i + 1, placeholder)

\* DelKey with the del statement left out.
DelKeyForgotten(m, placeholder) == m

\* 440: del anonymization_map[placeholder]
DelKey(m, placeholder) == DelFrom(m, 1, placeholder)

\* NextItem over the live container: a deletion makes the iteration skip
\* the item that follows.
NextItemOfLiveDict(i, deleted) == IF deleted THEN i + 2 ELSE i + 1

\* 437: the loop runs over list(anonymization_map.items()), a snapshot, so
\* a deletion does not move the iteration.
NextItem(i, deleted) == i + 1

\* 437-440: the restoration loop from item i of the snapshot on.
RECURSIVE RestoreFrom(_, _, _, _, _)
RestoreFrom(items, i, text, map, wl) ==
    IF i > Len(items) THEN [text |-> text, map |-> map]
    ELSE LET placeholder == items[i].placeholder
             original == items[i].original
         IN  IF original \in wl
             THEN RestoreFrom(items, NextItem(i, TRUE),
                              Replace(text, placeholder, original),
                              DelKey(map, placeholder), wl)
             ELSE RestoreFrom(items, NextItem(i, FALSE), text, map, wl)

\* 437-442 on a given (anonymized_text, anonymization_map).
RestoreLoop(text, map, wl) == RestoreFrom(map, 1, text, map, wl)

\* 434-442, `d` being what anonymize(text) returned (435).
anonymize_with_whitelist(d, wl) == RestoreLoop(d.text, d.map, wl)

(***************************************************************************)
(* clean_json_string (src/main.py 290-310) and the tail of                 *)
(* parse_cv_to_json (355-361).                                             *)
(***************************************************************************)

RECURSIVE CleanFrom(_, _, _, _)
RECURSIVE CleanFromInnermost(_, _, _, _)
\* CleanFrom with start_idx set at every opening brace.
CleanFromInnermost(s, idx, brace_count, start_idx) ==
    IF idx > Len(s) THEN s
    ELSE IF s[idx] = "{"
         THEN CleanFromInnermost(s, idx + 1, brace_count + 1, idx)
         ELSE IF s[idx] = "}"
              THEN IF brace_count - 1 = 0 /\ start_idx # 0
                   THEN SubSeq(s, start_idx, idx)
                   ELSE CleanFromInnermost(s, idx + 1, brace_count - 1, start_idx)
              ELSE CleanFromInnermost(s, idx + 1, brace_count, start_idx)

\* 298-307 from character idx on (1-based); start_idx = 0 stands for None.
CleanFrom(s, idx, brace_count, start_idx) ==
    IF idx > Len(s) THEN s                                   \* 310
    ELSE IF s[idx] = "{"
         THEN CleanFrom(s, idx + 1, brace_count + 1,
                        IF brace_count = 0 THEN idx ELSE start_idx)
         ELSE IF s[idx] = "}"
              THEN IF brace_count - 1 = 0 /\ start_idx # 0
                   THEN SubSeq(s, start_idx, idx)            \* 307
                   ELSE CleanFrom(s, idx + 1, brace_count - 1, start_idx)
              ELSE CleanFrom(s, idx + 1, brace_count, start_idx)

clean_json_string(s) == CleanFrom(s, 1, 0, 0)

\* json.loads on the strings over JsonChars: without commas, colons and
\* quotes the JSON documents are 0, {}, [] and [v] for a document v.
RECURSIVE IsJsonDocument(_)
IsJsonDocument(s) ==
    \/ s = <<"0">>
    \/ s = <<"{", "}">>
    \/ /\ Len(s) >= 2
       /\ s[1] = "["
       /\ s[Len(s)] = "]"
       /\ (Len(s) = 2 \/ IsJsonDocument(SubSeq(s, 2, Len(s) - 1)))

\* The Python value json.loads(s) gives for a document s.
JsonValue(s) ==
    [type |-> IF s[1] = "{" THEN "dict" ELSE IF s[1] = "[" THEN "list" ELSE "int",
     src |-> s]

EmptyDict == [type |-> "dict", src |-> <<"{", "}">>]

\* 355-361: the answer is cleaned and loaded; a JSONDecodeError gives {}.
LoadAnswer(answer) ==
    LET a == clean_json_string(answer)
    IN  IF IsJsonDocument(a) THEN JsonValue(a) ELSE EmptyDict

(***************************************************************************)
(* extract_cv (src/main.py 444-464) with parse_cv_to_json (312-361) and    *)
(* the background task generate_interview_questions (363-420).             *)
(***************************************************************************)

\* 52-61: the list MODELS as the module's import leaves it, by position.
StartupModels == [i \in 1..NumModels |-> i]

\* 63-246: the set WHITELIST as the module's import leaves it: terms of CVs
\* that are no personal data, and the empty string (76).
StartupWhitelist == {<<"g">>, <<>>}

StartupGlobals == [WHITELIST |-> StartupWhitelist, MODELS |-> StartupModels]

\* 354, 415, 453: the two names as a request reads them.
MODELS == globals.MODELS

WHITELIST == globals.WHITELIST

\* WhitelistAfterFilter with the loop taking the terms it has seen out of
\* the set.
WhitelistAfterFilterConsumes(wl) == wl \ {<<"g">>}

\* 437-440: the loop tests `original in whitelist` and writes to the text and
\* the map of this request only: the set is as it was.
WhitelistAfterFilter(wl) == wl

\* ModelsAfterCall with the loop taking the models it has tried off the
\* list.
ModelsAfterCallEmptied(ms) == <<>>

\* 260: `for model in models` reads the list it is given, which is the
\* object MODELS itself (354, 415); nothing is appended, removed or sorted.
ModelsAfterCall(ms) == ms

\* What is uploaded: a file named *.pdf that PyMuPDF reads or rejects, or
\* another file whose bytes are UTF-8 or not.
Uploads == {"pdf", "broken_pdf", "utf8", "not_utf8"}

\* 459
ErrorPayload == [type |-> "dict", src |-> <<"error">>]

IdleRequest ==
    [pc |-> "idle",          \* idle | reading | parsing | responded | background
                             \* | finished | crashed | task_crashed | cancelled
     upload |-> "none",
     sanitized |-> FALSE,    \* the text went through anonymize_with_whitelist
     call |-> IdleCall,      \* the gateway call in progress (354, 415)
     posted |-> <<>>,        \* the prompts this request has sent to a provider
     received |-> <<>>,      \* what the providers answered to extract_cv's
                             \* posts, until extract_cv has returned
     parse_end |-> "none",   \* how parse_cv_to_json's gateway call ended
     task_end |-> "none",    \* how the background task's gateway call ended
     beside |-> {},          \* the requests waiting for a provider when this
                             \* one was aborted
     cv_json |-> None,
     task |-> None,          \* the argument of the background task (462)
     scheduled |-> 0,        \* the number of tasks added to background_tasks
     task_input |-> None,    \* the cv_text the task's prompt was made from (407)
     response |-> None,      \* what the caller gets (464)
     fault |-> None,         \* the exception that left extract_cv
     log |-> <<>>]           \* logging.error / logging.info of 418, 420, 458

\* 448-451: the exception raised on the way to the text, if any.
ExtractFault(upload) ==
    CASE upload = "broken_pdf" -> [class |-> "fitz.FileDataError", last |-> None]
      [] upload = "not_utf8"   -> [class |-> "UnicodeDecodeError", last |-> None]
      [] OTHER                 -> None

\* The classes `except Exception` (419, 457) catches among those raised
\* here: all of them derive from Exception.
ExceptionSubclasses ==
    {"httpx.TransportError", "httpx.HTTPStatusError", "json.JSONDecodeError",
     "KeyError", "RuntimeError"}

\* ExtractCatches with a handler for the gateway's own RuntimeError only.
ExtractCatchesRuntimeErrorOnly(e) == e.class = "RuntimeError"

\* 457
ExtractCatches(e) == e.class \in ExceptionSubclasses

\* 260-288 from the loop head to the next await (the post of 264) or to the
\* end of the call.
RECURSIVE RunToAwait(_)
RunToAwait(c) ==
    IF CanPost(c) THEN DoPost(c)
    ELSE IF CanSwitch(c) THEN RunToAwait(DoSwitch(c))
    ELSE IF CanExhaust(c) THEN DoExhaust(c)
    ELSE c

Posted(q, c) ==
    IF c.pc = "awaiting" THEN Append(q.posted, c.message) ELSE q.posted

\* AddTask with no questions asked for a profile that could not be made.
AddTaskUnlessError(q, cv_json) ==
    IF cv_json = ErrorPayload THEN q
    ELSE [q EXCEPT !.task = cv_json, !.scheduled = @ + 1]

\* 462: one task is added, with cv_json as its argument, whatever cv_json is.
AddTask(q, cv_json) == [q EXCEPT !.task = cv_json, !.scheduled = @ + 1]

\* 355-361, 455-464: parse_cv_to_json's gateway call has ended in `c`; the
\* payload is made, the task added and the payload returned.  The frame of
\* the call is gone.
EndParse(q, c) ==
    LET cv_json == IF c.pc = "returned" THEN LoadAnswer(c.result) ELSE ErrorPayload
    IN  IF c.pc = "raised" /\ ~ExtractCatches(c.exc)
        THEN [q EXCEPT !.pc = "crashed", !.call = IdleCall,
                       !.parse_end = c.pc, !.fault = c.exc]
        ELSE [AddTask([q EXCEPT !.cv_json = cv_json,
                                !.log = IF c.pc = "raised"
                                        THEN Append(@, [level |-> "error",
                                                        at |-> "extract_cv"])
                                        ELSE @],
                      cv_json)
                 EXCEPT !.pc = "responded", !.call = IdleCall,
                        !.parse_end = c.pc,
                        !.response = cv_json]

\* A step of parse_cv_to_json's gateway call that took it to `c`.
ParseStep(q, c) ==
    IF c.pc = "awaiting"
    THEN [q EXCEPT !.call = c, !.posted = Posted(q, c)]
    ELSE EndParse(q, c)

\* 446-456, 354 with the list parse_cv_to_json hands to the gateway.
DoExtractWith(q, detector_ok, models) ==
    IF ExtractFault(q.upload) # None
    THEN [q EXCEPT !.pc = "crashed", !.fault = ExtractFault(q.upload)]
    ELSE IF ~detector_ok
         THEN [q EXCEPT !.pc = "crashed",
                        !.fault = [class |-> "DetectorError", last |-> None]]
         ELSE ParseStep([q EXCEPT !.pc = "parsing", !.sanitized = TRUE],
                        RunToAwait(NewCall("cv_prompt", models, DefaultRetries)))

\* DoExtract with the detector's failure swallowed: the text goes on as it
\* came.
DoExtractPassesRawText(q, detector_ok) ==
    IF ExtractFault(q.upload) # None
    THEN [q EXCEPT !.pc = "crashed", !.fault = ExtractFault(q.upload)]
    ELSE ParseStep([q EXCEPT !.pc = "parsing", !.sanitized = detector_ok],
                   RunToAwait(NewCall("cv_prompt", MODELS, DefaultRetries)))

\* 446-456, 354: the upload is read and turned into text, the text is
\* anonymized and parse_cv_to_json calls the gateway with MODELS and the
\* default max_retries, up to its first post.  An exception of the
\* extraction or of the detector leaves extract_cv.
DoExtract(q, detector_ok) == DoExtractWith(q, detector_ok, MODELS)

\* TaskCatches with a handler for the gateway's own RuntimeError only.
TaskCatchesRuntimeErrorOnly(e) == e.class = "RuntimeError"

\* 419
TaskCatches(e) == e.class \in ExceptionSubclasses

\* 416-420: the task's gateway call has ended in `c`: the answer is cleaned
\* and logged, or the exception is logged.  The task has the payload it was
\* given and nothing else of the request: the response is not in its reach.
EndTask(q, c) ==
    IF c.pc = "raised" /\ ~TaskCatches(c.exc)
    THEN [q EXCEPT !.pc = "task_crashed", !.call = IdleCall, !.task_end = c.pc]
    ELSE [q EXCEPT !.pc = "finished", !.call = IdleCall, !.task_end = c.pc,
                   !.log = Append(@, [level |-> IF c.pc = "returned"
                                                THEN "info" ELSE "error",
                                      at |-> "generate_interview_questions"])]

TaskStep(q, c) ==
    IF c.pc = "awaiting"
    THEN [q EXCEPT !.call = c, !.posted = Posted(q, c)]
    ELSE EndTask(q, c)

\* 364-415: the background task, run once the response is sent, makes its
\* prompt from its argument and calls the gateway, up to its first post.
DoBeginTask(q) ==
    TaskStep([q EXCEPT !.pc = "background", !.task_input = q.task,
                       !.received = <<>>],
             RunToAwait(NewCall("questions_prompt", MODELS, DefaultRetries)))

\* A request waits for a provider at the post of 264.
Pending(q) == q.call.pc = "awaiting"

\* CancelScope with one cancellation token for all the calls in flight.
CancelScopeShared(r) == 1..NumRequests

\* 263-264: every attempt opens an AsyncClient of its own inside the
\* coroutine of its request, so the cancellation of request r's task reaches
\* the await of r and no other.
CancelScope(r) == {r}

\* 264, 281, 358, 457: asyncio.CancelledError is raised at the pending await;
\* it derives from BaseException, so no handler on the way catches it and it
\* leaves extract_cv before add_task and return.
DoCancel(q, others) ==
    [q EXCEPT !.pc = "cancelled", !.call = IdleCall,
              !.parse_end = IF q.pc = "parsing" THEN "cancelled" ELSE @,
              !.task_end = IF q.pc = "background" THEN "cancelled" ELSE @,
              !.beside = others,
              !.fault = [class |-> "asyncio.CancelledError", last |-> None]]

(***************************************************************************)
(* Idle values of the components a specification does not exercise.        *)
(***************************************************************************)
GatewayIdle == call = IdleCall

WhitelistIdle ==
    /\ whitelist = {}
    /\ detected = None
    /\ filtered = None
    /\ refiltered = None

JsonIdle ==
    /\ reply = <<>>
    /\ cleaned = <<>>
    /\ parsed = None
    /\ json_pc = "idle"

RequestIdle == reqs = <<>> /\ globals = StartupGlobals

gatewayVars == <<call>>
whitelistVars == <<whitelist, detected, filtered, refiltered>>
jsonVars == <<reply, cleaned, parsed, json_pc>>
requestVars == <<reqs, globals>>

(***************************************************************************)
(* SpecGateway: one call of chat_with_fallback, every response chosen by   *)
(* the provider.                                                           *)
(***************************************************************************)
InitGateway ==
    /\ \E msg \in Messages, ms \in ModelLists, r \in 0..MaxRetries :
          call = NewCall(msg, ms, r)
    /\ WhitelistIdle /\ JsonIdle /\ RequestIdle

Post ==
    /\ CanPost(call)
    /\ call' = DoPost(call)
    /\ UNCHANGED <<whitelistVars, jsonVars, requestVars>>

Respond ==
    /\ call.pc = "awaiting"
    /\ \E o \in Outcomes : call' = DoRespond(call, o)
    /\ UNCHANGED <<whitelistVars, jsonVars, requestVars>>

SwitchModel ==
    /\ CanSwitch(call)
    /\ call' = DoSwitch(call)
    /\ UNCHANGED <<whitelistVars, jsonVars, requestVars>>

Exhaust ==
    /\ CanExhaust(call)
    /\ call' = DoExhaust(call)
    /\ UNCHANGED <<whitelistVars, jsonVars, requestVars>>

NextGateway == Post \/ Respond \/ SwitchModel \/ Exhaust

SpecGateway == InitGateway /\ [][NextGateway]_vars

\* 263: every request has a timeout, so a pending post ends (with a response
\* or with a transport failure); the steps between two awaits are the
\* program running.  The call takes a step whenever it can.
SpecGatewayFair == SpecGateway /\ WF_vars(NextGateway)

(***************************************************************************)
(* Properties of the gateway.                                              *)
(***************************************************************************)
Failed(c) == {i \in 1..Len(c.attempts) :
                 c.attempts[i].outcome # None
                 /\ c.attempts[i].outcome.kind # "content"}

Warnings(c) == {i \in 1..Len(c.log) : c.log[i].level = "warning"}

\* The scenario of C1: 3 models, max_retries >= 1, so far every response of
\* models 1 and 2 was a transport error and every response of model 3 a
\* completion.
FallbackScenario(c) ==
    /\ Len(c.models) = 3
    /\ c.max_retries >= 1
    /\ \A i \in 1..Len(c.attempts) :
          LET a == c.attempts[i]
          IN  a.outcome # None =>
                 IF a.model \in {c.models[1], c.models[2]}
                 THEN a.outcome.kind = "transport"
                 ELSE a.outcome.kind = "content"

\* C1: with 3 models of which the first two always fail with a transport
\* error and the third answers at once, the call does not raise; it returns
\* the third model's completion, after exactly 2 * max_retries failed
\* attempts, each of them recorded.
C1_FallbackReachesThirdModel ==
    FallbackScenario(call) =>
        /\ call.pc # "raised"
        /\ call.pc = "returned" =>
              LET a == call.attempts[Len(call.attempts)]
              IN  /\ a.model = call.models[3]
                  /\ call.result = a.outcome.body
                  /\ Cardinality(Failed(call)) = 2 * call.max_retries
                  /\ Cardinality(Warnings(call)) = 2 * call.max_retries

\* The scenario of C2: every response so far was a transport error or a
\* non-2xx status.
AllFail(c) ==
    \A i \in 1..Len(c.attempts) :
        c.attempts[i].outcome # None
        /\ c.attempts[i].outcome.kind \in {"transport", "status"}

\* C2: when every attempt fails, the call raises the all-models-exhausted
\* error (288) wrapping the last recorded error, after exactly
\* len(models) * max_retries attempts.
C2_ExhaustionAfterAllAttempts ==
    (call.pc = "raised" /\ AllFail(call)) =>
        /\ call.exc.class = "RuntimeError"
        /\ call.exc.last = call.last_exception
        /\ Len(call.attempts) = Len(call.models) * call.max_retries
        /\ Len(call.attempts) > 0 =>
              call.exc.last = ExceptionOf(call.attempts[Len(call.attempts)].outcome)

\* C3: an attempt that got a 2xx response is the last request of the call:
\* the call has ended, nothing was posted after it, and the completion text
\* the response carried is what the call returned.
C3_First2xxEndsTheCall ==
    \A i \in 1..Len(call.attempts) :
        LET o == call.attempts[i].outcome
        IN  (o # None /\ Is2xx(o)) =>
               /\ i = Len(call.attempts)
               /\ call.pc \in {"returned", "raised"}
               /\ o.kind = "content" =>
                     (call.pc = "returned" /\ call.result = o.body)

C3_Witness ==
    /\ call.pc = "returned"
    /\ Len(call.models) >= 2
    /\ call.max_retries >= 2
    /\ Len(call.attempts) = 1
    /\ call.attempts[1].outcome.kind = "content"
    /\ call.result = call.attempts[1].outcome.body

(***************************************************************************)
(* SpecWhitelist: anonymize_with_whitelist on whatever the detector        *)
(* returns, then the restoration loop once more on its result.             *)
(***************************************************************************)

\* Placeholders are a category tag and an ordinal: here the tag P with the
\* ordinals 1, 10 and 2.
Placeholders == {<<"P", "1">>, <<"P", "1", "0">>, <<"P", "2">>}

\* The spans the detector may have cut out: a term of the allow-list kind,
\* a name, and a span that is spelled like a placeholder.
Originals == {<<"g">>, <<"b">>, <<"P", "2">>}

\* The words of a CV that the detector leaves alone.
Words == {<<"x">>}

\* The input text is a sequence of spans: a word, or a span the detector
\* takes for personal data and replaces by a placeholder.
Spans == [kind : {"word"}, original : Words, placeholder : {<<>>}]
           \cup [kind : {"pii"}, original : Originals, placeholder : Placeholders]

\* A placeholder is never used for two different originals of one text.
SpanLists ==
    UNION {{sp \in [1..n -> Spans] :
               \A i, j \in 1..n :
                   (sp[i].kind = "pii" /\ sp[j].kind = "pii"
                      /\ sp[i].placeholder = sp[j].placeholder)
                   => sp[i].original = sp[j].original}
           : n \in 0..MaxSpans}

RECURSIVE InputText(_, _)
InputText(sp, i) ==
    IF i > Len(sp) THEN <<>> ELSE sp[i].original \o InputText(sp, i + 1)

RECURSIVE RedactedText(_, _)
RedactedText(sp, i) ==
    IF i > Len(sp) THEN <<>>
    ELSE (IF sp[i].kind = "pii" THEN sp[i].placeholder ELSE sp[i].original)
            \o RedactedText(sp, i + 1)

\* The map gets an entry at the first span of each placeholder.
RECURSIVE MapOf(_, _)
MapOf(sp, i) ==
    IF i > Len(sp) THEN <<>>
    ELSE IF sp[i].kind = "pii"
            /\ \A k \in 1..(i - 1) : sp[k].placeholder # sp[i].placeholder
         THEN <<[placeholder |-> sp[i].placeholder, original |-> sp[i].original]>>
                 \o MapOf(sp, i + 1)
         ELSE MapOf(sp, i + 1)

\* 435: anonymize(text), of the text_anonymizer library: the redacted text
\* and the map, kept here with the text they were made from.
anonymize(sp) ==
    [input |-> InputText(sp, 1), text |-> RedactedText(sp, 1), map |-> MapOf(sp, 1)]

InitWhitelist ==
    /\ whitelist \in SUBSET Originals
    /\ detected = None
    /\ filtered = None
    /\ refiltered = None
    /\ GatewayIdle /\ JsonIdle /\ RequestIdle

\* 435-442: anonymize(text) returns some (text, map); the loop filters it.
Anonymize ==
    /\ detected = None
    /\ \E sp \in SpanLists :
          /\ detected' = anonymize(sp)
          /\ filtered' = anonymize_with_whitelist(detected', whitelist)
    /\ UNCHANGED <<whitelist, refiltered, gatewayVars, jsonVars, requestVars>>

\* 437-442 applied to the pair the first run returned.
Refilter ==
    /\ filtered # None
    /\ refiltered = None
    /\ refiltered' = RestoreLoop(filtered.text, filtered.map, whitelist)
    /\ UNCHANGED <<whitelist, detected, filtered, gatewayVars, jsonVars, requestVars>>

NextWhitelist == Anonymize \/ Refilter

SpecWhitelist == InitWhitelist /\ [][NextWhitelist]_vars

(***************************************************************************)
(* Properties of the whitelist filter.                                     *)
(***************************************************************************)
ItemSet(m) == {m[i] : i \in 1..Len(m)}

Removed(m, wl) == {e \in ItemSet(m) : e.original \in wl}

\* No placeholder of the map is part of another one, and no original
\* contains a placeholder of the map.
Inert(d) ==
    \A e, f \in ItemSet(d.map) :
        /\ e # f => ~Occurs(e.placeholder, f.placeholder)
        /\ ~Occurs(e.placeholder, f.original)

RECURSIVE Substitute(_, _, _)
Substitute(text, m, i) ==
    IF i > Len(m) THEN text
    ELSE Substitute(Replace(text, m[i].placeholder, m[i].original), m, i + 1)

\* C5: substituting the placeholders left in the filtered text by their
\* originals gives back the input text, whenever doing so with the
\* detector's own text and map does.
C5_RoundTrip ==
    (filtered # None
       /\ Substitute(detected.text, detected.map, 1) = detected.input)
    => Substitute(filtered.text, filtered.map, 1) = detected.input

IterationOrders(n) == {p \in [1..n -> 1..n] : \A i, j \in 1..n : i # j => p[i] # p[j]}

\* C6: the loop gives the same text and the same entries whatever the
\* order in which the map hands out its entries.
C6_OrderIndependent ==
    filtered # None =>
        \A p \in IterationOrders(Len(detected.map)) :
            LET m == [i \in 1..Len(detected.map) |-> detected.map[p[i]]]
                r == RestoreLoop(detected.text, m, whitelist)
            IN  /\ r.text = filtered.text
                /\ ItemSet(r.map) = ItemSet(filtered.map)

\* C7: filtering the filtered pair again changes neither the text nor the
\* map.
C7_Idempotent ==
    refiltered # None => refiltered = filtered

C7_Witness ==
    /\ refiltered # None
    /\ refiltered = filtered
    /\ filtered.text # detected.text
    /\ Len(detected.map) = 2
    /\ Len(filtered.map) = 1

(***************************************************************************)
(* SpecJson: an answer of the gateway goes through clean_json_string and   *)
(* json.loads, as in parse_cv_to_json.                                     *)
(***************************************************************************)
JsonChars == {"{", "}", "[", "]", "0", "a"}

Answers == UNION {[1..n -> JsonChars] : n \in 0..MaxReplyLen}

InitJson ==
    /\ reply \in Answers
    /\ cleaned = <<>>
    /\ parsed = None
    /\ json_pc = "answer"
    /\ GatewayIdle /\ WhitelistIdle /\ RequestIdle

\* 355
CleanAnswer ==
    /\ json_pc = "answer"
    /\ cleaned' = clean_json_string(reply)
    /\ json_pc' = "cleaned"
    /\ UNCHANGED <<reply, parsed, gatewayVars, whitelistVars, requestVars>>

\* 356-361
LoadJson ==
    /\ json_pc = "cleaned"
    /\ parsed' = LoadAnswer(reply)
    /\ json_pc' = "loaded"
    /\ UNCHANGED <<reply, cleaned, gatewayVars, whitelistVars, requestVars>>

NextJson == CleanAnswer \/ LoadJson

SpecJson == InitJson /\ [][NextJson]_vars

(***************************************************************************)
(* Properties of the JSON recovery.                                        *)
(***************************************************************************)
RECURSIVE Depth(_, _, _)
\* Opening minus closing braces in s[i..k].
Depth(s, i, k) ==
    IF k < i THEN 0
    ELSE Depth(s, i, k - 1)
           + (IF s[k] = "{" THEN 1 ELSE IF s[k] = "}" THEN -1 ELSE 0)

\* s[i..j] is a balanced block: it opens at i and its depth comes back to
\* zero at j, and not before.
Balanced(s, i, j) ==
    /\ i < j
    /\ s[i] = "{"
    /\ s[j] = "}"
    /\ Depth(s, i, j) = 0
    /\ \A k \in i..(j - 1) : Depth(s, i, k) > 0

RECURSIVE OpenAt(_, _)
\* The number of braces open after s[1..k], a closing brace that closes
\* nothing being skipped.
OpenAt(s, k) ==
    IF k = 0 THEN 0
    ELSE LET d == OpenAt(s, k - 1)
         IN  IF s[k] = "{" THEN d + 1
             ELSE IF s[k] = "}" /\ d > 0 THEN d - 1
             ELSE d

\* The balanced blocks that open where no brace is open.
TopLevelBlocks(s) ==
    {b \in (1..Len(s)) \X (1..Len(s)) :
        Balanced(s, b[1], b[2]) /\ OpenAt(s, b[1] - 1) = 0}

FirstBlock(s) ==
    LET b == CHOOSE x \in TopLevelBlocks(s) :
                 \A y \in TopLevelBlocks(s) : x[1] <= y[1]
    IN  SubSeq(s, b[1], b[2])

\* C8: of an answer that holds a top-level balanced block,
\* clean_json_string returns the first such block and nothing else.
C8_FirstBlockExtracted ==
    (json_pc # "answer" /\ TopLevelBlocks(reply) # {}) => cleaned = FirstBlock(reply)

\* C9: an answer without a balanced block, or whose block is no JSON
\* document, is turned into the empty profile object.
C9_MalformedGivesEmptyProfile ==
    (json_pc = "loaded"
       /\ (TopLevelBlocks(reply) = {} \/ ~IsJsonDocument(FirstBlock(reply))))
    => parsed = EmptyDict

(***************************************************************************)
(* SpecRequest: NumRequests uploads handled by extract_cv, their steps     *)
(* interleaved at the awaits.                                              *)
(***************************************************************************)
Requests == 1..NumRequests

InitRequest ==
    /\ reqs = [r \in Requests |-> IdleRequest]
    /\ globals = StartupGlobals
    /\ GatewayIdle /\ WhitelistIdle /\ JsonIdle

Others == <<gatewayVars, whitelistVars, jsonVars>>

\* A request comes in with its upload.
Arrive(r) ==
    /\ reqs[r].pc = "idle"
    /\ \E u \in Uploads : reqs' = [reqs EXCEPT ![r].pc = "reading", ![r].upload = u]
    /\ UNCHANGED <<globals, Others>>

Extract(r) ==
    /\ reqs[r].pc = "reading"
    /\ \E ok \in BOOLEAN : reqs' = [reqs EXCEPT ![r] = DoExtract(@, ok)]
    /\ globals' = IF reqs'[r].sanitized
                  THEN [WHITELIST |-> WhitelistAfterFilter(WHITELIST),
                        MODELS |-> ModelsAfterCall(MODELS)]
                  ELSE globals
    /\ UNCHANGED Others

\* The provider answers the post parse_cv_to_json's call is waiting for.
ParseRespond(r) ==
    /\ reqs[r].pc = "parsing"
    /\ reqs[r].call.pc = "awaiting"
    /\ \E o \in Outcomes :
          reqs' = [reqs EXCEPT ![r] =
                      ParseStep([reqs[r] EXCEPT !.received = Append(@, o)],
                                RunToAwait(DoRespond(reqs[r].call, o)))]
    /\ globals' = [globals EXCEPT !.MODELS = ModelsAfterCall(@)]
    /\ UNCHANGED Others

BeginTask(r) ==
    /\ reqs[r].pc = "responded"
    /\ reqs' = [reqs EXCEPT ![r] = DoBeginTask(@)]
    /\ globals' = [globals EXCEPT !.MODELS = ModelsAfterCall(@)]
    /\ UNCHANGED Others

\* The provider answers the post the background task's call is waiting for.
TaskRespond(r) ==
    /\ reqs[r].pc = "background"
    /\ reqs[r].call.pc = "awaiting"
    /\ \E o \in Outcomes :
          reqs' = [reqs EXCEPT ![r] = TaskStep(@, RunToAwait(DoRespond(@.call, o)))]
    /\ globals' = [globals EXCEPT !.MODELS = ModelsAfterCall(@)]
    /\ UNCHANGED Others

\* The client of request r goes away while parse_cv_to_json's call waits
\* for a provider.
Abort(r) ==
    /\ reqs[r].pc = "parsing"
    /\ Pending(reqs[r])
    /\ reqs' = [s \in Requests |->
                  IF s \in CancelScope(r) /\ Pending(reqs[s])
                  THEN DoCancel(reqs[s],
                                {t \in Requests \ {s} : Pending(reqs[t])})
                  ELSE reqs[s]]
    /\ UNCHANGED <<globals, Others>>

NextRequest ==
    \E r \in Requests :
        \/ Arrive(r) \/ Extract(r) \/ ParseRespond(r)
        \/ BeginTask(r) \/ TaskRespond(r) \/ Abort(r)

SpecRequest == InitRequest /\ [][NextRequest]_vars

(***************************************************************************)
(* Properties of extract_cv.                                               *)
(***************************************************************************)

\* C10: when the gateway call of the profile extraction raised, no model
\* having answered, the exception does not leave extract_cv: the request
\* gets the {error: ...} payload as its response.
C10_ExhaustionGivesErrorPayload ==
    \A r \in Requests :
        reqs[r].parse_end = "raised" =>
            /\ reqs[r].pc \in {"responded", "background", "finished"}
            /\ reqs[r].fault = None
            /\ reqs[r].response = ErrorPayload

C10_Witness ==
    \E r \in Requests :
        /\ reqs[r].parse_end = "raised"
        /\ reqs[r].pc = "responded"
        /\ reqs[r].posted = <<"cv_prompt">>
        /\ reqs[r].response = ErrorPayload

\* C11: a request sends a prompt to a provider only after its text went
\* through the anonymizer; a request whose detector failed ends with that
\* exception, has sent nothing, and has neither a payload nor a background
\* task.
C11_NoRequestWithoutAnonymization ==
    \A r \in Requests :
        /\ reqs[r].posted # <<>> => reqs[r].sanitized
        /\ reqs[r].call.pc # "idle" => reqs[r].sanitized
        /\ ~reqs[r].sanitized =>
              /\ reqs[r].pc \in {"idle", "reading", "crashed"}
              /\ reqs[r].cv_json = None
              /\ reqs[r].task = None

C11_Witness ==
    \E r \in Requests :
        /\ reqs[r].pc = "crashed"
        /\ reqs[r].fault.class = "DetectorError"
        /\ reqs[r].upload = "utf8"
        /\ reqs[r].posted = <<>>
        /\ reqs[r].task = None

\* C12: the background task of a request runs only once the request's
\* response is fixed, its argument is that response, an exception of its
\* gateway call ends in an error record of the task and not in a fault, and
\* no step changes a response once it is set.
TaskLog(q) ==
    SelectSeq(q.log, LAMBDA e : e.at = "generate_interview_questions")

C12_TaskAfterResponse ==
    /\ [](\A r \in Requests :
            /\ reqs[r].pc \in {"background", "finished", "task_crashed"} =>
                  /\ reqs[r].response # None
                  /\ reqs[r].task = reqs[r].response
            /\ (\E i \in 1..Len(reqs[r].posted) :
                    reqs[r].posted[i] = "questions_prompt") =>
                  reqs[r].response # None
            /\ reqs[r].task_end # "none" =>
                  /\ reqs[r].pc = "finished"
                  /\ reqs[r].fault = None
                  /\ TaskLog(reqs[r]) =
                        <<[level |-> IF reqs[r].task_end = "raised"
                                     THEN "error" ELSE "info",
                           at |-> "generate_interview_questions"]>>)
    /\ [][\A r \in Requests :
            reqs[r].response # None => reqs'[r].response = reqs[r].response]_vars

C12_Witness ==
    \E r \in Requests :
        /\ reqs[r].pc = "finished"
        /\ reqs[r].task_end = "raised"
        /\ reqs[r].parse_end = "returned"
        /\ reqs[r].response = reqs[r].task
        /\ reqs[r].response # ErrorPayload

C14_UnsupportedInputIsReported ==
    \A r \in Requests :
        (reqs[r].upload \in {"broken_pdf", "not_utf8"}
            /\ reqs[r].pc \notin {"idle", "reading"}) =>
            /\ reqs[r].fault = None
            /\ reqs[r].response # None
            /\ reqs[r].posted = <<>>

\* C20: whatever requests have been served, are being served or have
\* failed, WHITELIST and MODELS hold the values the import gave them.
C20_GlobalsKeepStartupValues ==
    /\ globals.WHITELIST = StartupWhitelist
    /\ globals.MODELS = StartupModels

C20_Witness ==
    /\ \A r \in Requests : reqs[r].pc = "finished"
    /\ \E r \in Requests : reqs[r].parse_end = "raised"
    /\ \E r \in Requests : reqs[r].task_end = "returned"
    /\ globals = StartupGlobals

\* C22: a request that has returned a payload has added exactly one task,
\* with the payload as its argument, the {error: ...} payload included; a
\* request that has returned nothing has added none; and the task, once it
\* runs, has sent its prompt, made from that payload, to a provider.
C22_OneTaskPerResponse ==
    \A r \in Requests :
        /\ reqs[r].response # None =>
              /\ reqs[r].scheduled = 1
              /\ reqs[r].task = reqs[r].response
        /\ reqs[r].response = None => reqs[r].scheduled = 0
        /\ reqs[r].pc \in {"background", "finished"} =>
              /\ reqs[r].posted = <<"cv_prompt", "questions_prompt">>
              /\ reqs[r].task_input = reqs[r].response

C22_Witness ==
    \E r \in Requests :
        /\ reqs[r].pc = "finished"
        /\ reqs[r].parse_end = "raised"
        /\ reqs[r].response = ErrorPayload
        /\ reqs[r].scheduled = 1
        /\ reqs[r].task_input = ErrorPayload
        /\ reqs[r].posted = <<"cv_prompt", "questions_prompt">>

\* extract_cv run alone in a fresh process: the upload is extracted with
\* the startup MODELS and the providers' answers are fed to it one by one.
RECURSIVE Feed(_, _, _)
Feed(q, outcomes, i) ==
    IF i > Len(outcomes) \/ q.pc # "parsing" \/ ~Pending(q) THEN q
    ELSE Feed(ParseStep(q, RunToAwait(DoRespond(q.call, outcomes[i]))),
              outcomes, i + 1)

RunAlone(upload, detector_ok, outcomes) ==
    Feed(DoExtractWith([IdleRequest EXCEPT !.pc = "reading", !.upload = upload],
                       detector_ok, StartupModels),
         outcomes, 1)

\* C23: whatever the other requests do in between, a request that has
\* returned has returned the payload that extract_cv returns when it runs
\* alone with the same upload and the same answers of the providers, with
\* the same task and at the same point.
C23_RequestIsolation ==
    \A r \in Requests :
        reqs[r].pc = "responded" =>
            LET alone == RunAlone(reqs[r].upload, reqs[r].sanitized,
                                  reqs[r].received)
            IN  /\ alone.pc = "responded"
                /\ alone.response = reqs[r].response
                /\ alone.task = reqs[r].task
                /\ alone.posted = reqs[r].posted
                /\ alone.log = reqs[r].log

C23_Witness ==
    \E r, s \in Requests :
        /\ r # s
        /\ reqs[r].pc = "responded"
        /\ reqs[r].response # ErrorPayload
        /\ reqs[s].pc = "responded"
        /\ reqs[s].response = ErrorPayload
        /\ reqs[s].upload = reqs[r].upload

(***************************************************************************)
(* Further properties of the gateway.                                      *)
(***************************************************************************)
AttemptsOn(c, m) == {i \in 1..Len(c.attempts) : c.attempts[i].model = m}

StatusFailure == [kind |-> "status", body |-> None]
TransportFailure == [kind |-> "transport", body |-> None]

C17_OnlyContentIsSuccess ==
    /\ call.pc = "returned" =>
          LET a == call.attempts[Len(call.attempts)]
          IN  a.outcome.kind = "content" /\ call.result = a.outcome.body
    /\ call.pc = "raised" =>
          /\ call.exc.class = "RuntimeError"
          /\ Cardinality(Failed(call)) = Len(call.models) * call.max_retries

\* C18: every pending request ending, a call ends: it returns or it raises;
\* it has issued at most len(models) * max_retries requests, and its
\* position in the list of models never goes back.
C18_Termination ==
    /\ <>(call.pc \in {"returned", "raised"})
    /\ [](Len(call.attempts) <= Len(call.models) * call.max_retries)
    /\ [][call'.mi >= call.mi]_vars

C18_Witness ==
    /\ call.pc = "raised"
    /\ Len(call.models) >= 2
    /\ call.max_retries >= 1
    /\ Len(call.attempts) = 1
    /\ call.attempts[1].outcome = TransportFailure

WarningsFor(c, a) ==
    {k \in Warnings(c) : c.log[k].model = a.model /\ c.log[k].attempt = a.attempt}

\* C19: as soon as an attempt has failed, the log has exactly one warning
\* with the attempt's model and its 1-based number; an attempt that is
\* pending or has succeeded has none.
C19_FailedAttemptLoggedOnce ==
    \A i \in 1..Len(call.attempts) :
        LET a == call.attempts[i]
        IN  IF i \in Failed(call)
            THEN Cardinality(WarningsFor(call, a)) = 1
            ELSE WarningsFor(call, a) = {}

(***************************************************************************)
(* Further properties of the JSON recovery.                                *)
(***************************************************************************)

\* C21: what clean_json_string returns is its input, or a piece s[i..j] of
\* it that opens with a brace at i, closes with a brace at j, and whose
\* depth, counted from i, is positive before j and zero at j.
C21_ResultShape ==
    json_pc # "answer" =>
        \/ cleaned = reply
        \/ \E i, j \in 1..Len(reply) :
              /\ cleaned = SubSeq(reply, i, j)
              /\ Balanced(reply, i, j)

C21_Witness ==
    /\ json_pc = "cleaned"
    /\ reply = <<"}", "{", "{", "}", "}">>
    /\ cleaned = <<"{", "}">>

(***************************************************************************)
(* Further properties of the whitelist filter.                             *)
(***************************************************************************)
OccurrencesOf(old, s) == Cardinality({i \in 1..Len(s) : MatchAt(s, i, old)})

\* C16: the filter touches nothing but the whitelisted entries: every entry
\* of the returned map is an entry of the detector's map, every entry of the
\* detector's map whose original is not whitelisted is still there, and the
\* text has every occurrence of such an entry's placeholder it had before.
\* The occurrences are counted for the placeholders that are not part of
\* another placeholder of the map: for these every match in the detector's
\* text is a span the detector replaced.
C16_FilterFrame ==
    filtered # None =>
        /\ ItemSet(filtered.map) \subseteq ItemSet(detected.map)
        /\ \A e \in ItemSet(detected.map) :
              e.original \notin whitelist =>
                  /\ e \in ItemSet(filtered.map)
                  /\ (\A f \in ItemSet(detected.map) \ {e} :
                          ~Occurs(e.placeholder, f.placeholder))
                     => OccurrencesOf(e.placeholder, filtered.text)
                           >= OccurrencesOf(e.placeholder, detected.text)

=============================================================================
